---- MODULE Spec2Model ----
(***************************************************************************)
(* A model of src/src/wit.rs: the Querier, a read-only facade over a       *)
(* resolved WIT graph (Resolve) and one selected world.                    *)
(*                                                                         *)
(* Strings the code builds are sequences of string tokens, so that         *)
(* format!/join/repeat are concatenations whose result can be taken apart  *)
(* again: " ".repeat(k) is k tokens " ", a line break is the token "\n".   *)
(* Option<T> is a sequence of length at most one: <<>> is None, <<x>> is   *)
(* Some(x).  A panic (unwrap/expect on None, todo!, unreachable!, an       *)
(* arithmetic overflow in a build with overflow checks) is the outcome     *)
(* Abort(why); it unwinds through every caller.                            *)
(***************************************************************************)
EXTENDS Integers, Sequences, FiniteSets, TLC

VARIABLES
  resolve,          \* Querier.resolve: packages, interfaces, types, worlds
  world_id,         \* Querier.world_id
  overflow_checks,  \* whether the build panics on integer overflow
  pc,               \* "new" before Querier::new, "aborted" when it panicked,
                    \* else "ready" for a call or "returned" from one
  call,             \* the last operation called and its arguments
  ret               \* what that operation returned, or Abort

vars == <<resolve, world_id, overflow_checks, pc, call, ret>>

-----------------------------------------------------------------------------
(* Bounds of the model.                                                    *)

MaxImports == 3
MaxExports == 1
NTypes == 3
MaxCol == 1
MaxCases == 2
MaxFields == 2

(* Program constants.                                                      *)

\* Expansion::Expanded carries a u8
U8Max == 255
\* " ".repeat(col as usize * 4)
IndentWidth == 4

-----------------------------------------------------------------------------
(* Values.                                                                 *)

None == <<>>
Some(x) == <<x>>
IsSome(o) == Len(o) = 1
Unwrapped(o) == o[1]

Text(t) == [kind |-> "text", text |-> t]
Abort(why) == [kind |-> "abort", why |-> why]
IsAbort(r) == r.kind = "abort"
IsText(r) == r.kind = "text"

Lit(s) == <<s>>
Repeat(s, n) == [i \in 1..n |-> s]

RECURSIVE Join(_, _)
\* Vec<String>::join(sep)
Join(strs, sep) ==
  IF Len(strs) = 0 THEN <<>>
  ELSE IF Len(strs) = 1 THEN strs[1]
  ELSE strs[1] \o sep \o Join(Tail(strs), sep)

\* the first panic met while mapping over a list, in iteration order
FirstAbort(rs) ==
  LET bad == {i \in 1..Len(rs) : IsAbort(rs[i])}
  IN  IF bad = {} THEN None
      ELSE Some(rs[CHOOSE i \in bad : \A j \in bad : i <= j])

-----------------------------------------------------------------------------
(* Types, type definitions and expansion modes.                            *)

Keyword ==
  [Bool |-> "bool", U8 |-> "u8", U16 |-> "u16", U32 |-> "u32", U64 |-> "u64",
   S8 |-> "s8", S16 |-> "s16", S32 |-> "s32", S64 |-> "s64",
   Float32 |-> "float32", Float64 |-> "float64", String |-> "string",
   Char |-> "char"]

Prim(tag) == [tag |-> tag]
Id(id) == [tag |-> "Id", id |-> id]

Collapsed == [mode |-> "Collapsed"]
Expanded(col) == [mode |-> "Expanded", col |-> col]

Unsupported == {"Resource", "Handle", "Flags", "Variant", "Future", "Stream"}

\* u8 subtraction col - 1: a panic where overflow checks are compiled in,
\* a wrap modulo 2^8 where they are not
SubOne(col, checks) ==
  IF col >= 1 THEN Some(col - 1)
  ELSE IF checks THEN None
  ELSE Some((col - 1) % (U8Max + 1))

\* " ".repeat(col as usize * 4): the cast precedes the multiplication
indent(col) == Repeat(" ", col * IndentWidth)

\* a closing brace indented like the body
closing_indent_same(col, checks) == Some(indent(col))

\* " ".repeat((col - 1) as usize * 4): the subtraction is done in u8
closing_indent(col, checks) ==
  LET c == SubOne(col, checks)
  IN  IF IsSome(c) THEN Some(indent(Unwrapped(c))) ELSE None

\* a result that marks the missing ok type, as WIT source does
result_format_wit(ok, err) ==
  IF IsSome(ok) /\ IsSome(err)
  THEN Lit("result<") \o ok[1] \o <<",", " ">> \o err[1] \o Lit(">")
  ELSE IF IsSome(ok) THEN Lit("result<") \o ok[1] \o Lit(">")
  ELSE IF IsSome(err) THEN <<"result<", "_", ",", " ">> \o err[1] \o Lit(">")
  ELSE Lit("result")

\* match (ok, err) { ... } on the rendered inner types
result_format(ok, err) ==
  IF IsSome(ok) /\ IsSome(err)
  THEN Lit("result<") \o ok[1] \o <<",", " ">> \o err[1] \o Lit(">")
  ELSE IF IsSome(ok) THEN Lit("result<") \o ok[1] \o Lit(">")
  ELSE IF IsSome(err) THEN Lit("result<") \o err[1] \o Lit(">")
  ELSE Lit("result")

\* an alias that renders its target Collapsed, as the other wrappers do
alias_collapsed(expansion) == Collapsed

\* TypeDefKind::Type(t) => return self.display_wit_type(t, expansion)
alias_expansion(expansion) == expansion

\* an unsupported kind rendered as a placeholder
unsupported_placeholder(typ) == Text(<<"<", typ.kind, ">">>)

\* the todo!() arms
unsupported(typ) == Abort("not yet implemented")

RECURSIVE display_wit_type(_, _, _), display_wit_type_def(_, _, _)

display_wit_type(param_type, expansion, checks) ==
  IF param_type.tag # "Id" THEN Text(Lit(Keyword[param_type.tag]))
  ELSE IF param_type.id \notin DOMAIN resolve.types
       THEN Abort("found type id for type not present in resolver")
       ELSE display_wit_type_def(resolve.types[param_type.id], expansion,
                                 checks)

display_wit_type_def(typ, expansion, checks) ==
  LET inner(t) == display_wit_type(t, Collapsed, checks)
      wrap(open, t) ==
        LET r == inner(t)
        IN  IF IsAbort(r) THEN r ELSE Text(Lit(open) \o r.text \o Lit(">"))
      body(keyword, lines, col) ==
        LET close == closing_indent(col, checks)
        IN  IF ~IsSome(close) THEN Abort("attempt to subtract with overflow")
            ELSE Text(Lit(keyword) \o Lit("\n")
                      \o Join(lines, <<",", "\n">>) \o Lit("\n")
                      \o Unwrapped(close) \o Lit("}"))
      collapsed == IF IsSome(typ.name) THEN Text(Lit(Unwrapped(typ.name)))
                   ELSE Abort("called Option::unwrap() on a None value")
  IN
  CASE typ.kind = "Option" -> wrap("option<", typ.ty)
    [] typ.kind = "Result" ->
         LET ok == IF IsSome(typ.ok) THEN Some(inner(Unwrapped(typ.ok)))
                   ELSE None
             err == IF IsSome(typ.err) THEN Some(inner(Unwrapped(typ.err)))
                    ELSE None
             bad == FirstAbort(ok \o err)
         IN  IF IsSome(bad) THEN Unwrapped(bad)
             ELSE Text(result_format([i \in 1..Len(ok) |-> ok[i].text],
                                     [i \in 1..Len(err) |-> err[i].text]))
    [] typ.kind = "Type" ->
         display_wit_type(typ.ty, alias_expansion(expansion), checks)
    [] typ.kind = "List" -> wrap("list<", typ.ty)
    [] typ.kind = "Tuple" ->
         LET rs == [i \in 1..Len(typ.types) |-> inner(typ.types[i])]
             bad == FirstAbort(rs)
         IN  IF IsSome(bad) THEN Unwrapped(bad)
             ELSE Text(Lit("tuple<")
                       \o Join([i \in 1..Len(rs) |-> rs[i].text], <<",", " ">>)
                       \o Lit(">"))
    [] typ.kind = "Enum" ->
         IF expansion.mode = "Expanded"
         THEN body("enum {",
                   [i \in 1..Len(typ.cases) |->
                      indent(expansion.col) \o Lit(typ.cases[i])],
                   expansion.col)
         ELSE collapsed
    [] typ.kind = "Record" ->
         IF expansion.mode = "Expanded"
         THEN LET rs == [i \in 1..Len(typ.fields) |-> inner(typ.fields[i].ty)]
                  bad == FirstAbort(rs)
              IN  IF IsSome(bad) THEN Unwrapped(bad)
                  ELSE body("record {",
                            [i \in 1..Len(rs) |->
                               indent(expansion.col)
                               \o Lit(typ.fields[i].name) \o <<":", " ">>
                               \o rs[i].text],
                            expansion.col)
         ELSE collapsed
    [] typ.kind \in Unsupported -> unsupported(typ)
    [] typ.kind = "Unknown" -> Abort("internal error: entered unreachable code")

-----------------------------------------------------------------------------
(* World keys, world items and the queries over a world.  A Querier q is   *)
(* [resolve, world_id]; Self is the one the state holds.                   *)

NameKey(name) == [tag |-> "Name", name |-> name]
InterfaceKey(id) == [tag |-> "Interface", id |-> id]

Function(params, results) ==
  [tag |-> "Function", params |-> params, results |-> results]
InterfaceItem(id) == [tag |-> "Interface", id |-> id]
TypeItem(id) == [tag |-> "Type", id |-> id]

Absent == [kind |-> "none"]
Present(item) == [kind |-> "some", item |-> item]
Items(items) == [kind |-> "items", items |-> items]
Bool(b) == [kind |-> "bool", val |-> b]
Ok == [kind |-> "ok"]
Err(msg) == [kind |-> "err", msg |-> msg]

Self == [resolve |-> resolve, world_id |-> world_id]

\* Arena::get
Get(arena, id) == IF id \in DOMAIN arena THEN Some(arena[id]) ELSE None

world(q) ==
  LET w == Get(q.resolve.worlds, q.world_id)
  IN  IF IsSome(w) THEN [kind |-> "world", world |-> Unwrapped(w)]
      ELSE Abort("world_id is not found in the resolved wit package")

interface(q, id) == Get(q.resolve.interfaces, id)

\* Resolve::id_of, the graph's own naming of an interface:
\* namespace:package/interface@version
id_of(r, id) ==
  LET i == Get(r.interfaces, id)
  IN  IF ~IsSome(i) THEN Abort("interface id not in arena")
      ELSE IF ~IsSome(i[1].name) THEN Abort("unexpected anonymous interface")
      ELSE IF ~IsSome(i[1].package) THEN Text(Lit(Unwrapped(i[1].name)))
      ELSE LET p == Get(r.packages, i[1].package[1])
           IN  IF ~IsSome(p) THEN Abort("package id not in arena")
               ELSE Text(<<p[1].name.namespace, ":", p[1].name.name, "/">>
                         \o Lit(Unwrapped(i[1].name))
                         \o (IF IsSome(p[1].name.version)
                             THEN <<"@", p[1].name.version[1]>> ELSE <<>>))

\* Resolve::name_world_key
name_world_key(r, key) ==
  IF key.tag = "Name" THEN Text(key.name) ELSE id_of(r, key.id)

world_item_name(q, name) == name_world_key(q.resolve, name)

\* the body of the loop of imports_wasi for one import: "return" when it
\* returns true, "next" when the loop goes on
imports_wasi_step(q, import_name) ==
  IF import_name.tag # "Interface" THEN [kind |-> "next"]
  ELSE LET i == Get(q.resolve.interfaces, import_name.id)
       IN  IF ~IsSome(i)
           THEN Abort("called Option::unwrap() on a None value")
           ELSE IF ~IsSome(i[1].package) THEN [kind |-> "next"]
           ELSE LET p == Get(q.resolve.packages, i[1].package[1])
                IN  IF IsSome(p) /\ p[1].name.namespace = "wasi"
                    THEN [kind |-> "return"]
                    ELSE [kind |-> "next"]

imports_wasi(q) ==
  LET w == world(q)
  IN  IF IsAbort(w) THEN w
      ELSE LET steps == [k \in 1..Len(w.world.imports) |->
                          imports_wasi_step(q, w.world.imports[k].key)]
               ends == {k \in 1..Len(steps) : steps[k].kind # "next"}
           IN  IF ends = {} THEN Bool(FALSE)
               ELSE LET first == CHOOSE k \in ends : \A j \in ends : k <= j
                    IN  IF IsAbort(steps[first]) THEN steps[first]
                        ELSE Bool(TRUE)

\* the closure of non_wasi_imports for one import
non_wasi_step(q, import_name, import) ==
  LET i == IF import_name.tag = "Interface"
           THEN Get(q.resolve.interfaces, import_name.id) ELSE None
      p == IF IsSome(i) /\ IsSome(i[1].package)
           THEN Get(q.resolve.packages, i[1].package[1]) ELSE None
      n == name_world_key(q.resolve, import_name)
  IN  IF import_name.tag = "Interface" /\ ~IsSome(i)
      THEN Abort("called Option::unwrap() on a None value")
      ELSE IF IsSome(i) /\ IsSome(i[1].package) /\ ~IsSome(p)
      THEN Abort("called Option::unwrap() on a None value")
      ELSE IF IsSome(p) /\ p[1].name.namespace = "wasi" THEN [kind |-> "skip"]
      ELSE IF IsAbort(n) THEN n
      ELSE [kind |-> "yield", pair |-> <<n.text, import>>]

\* what is left of a list of filter steps: the pairs yielded, in order
Yielded(steps) ==
  LET kept == SelectSeq(steps, LAMBDA r : r.kind = "yield")
  IN  [k \in 1..Len(kept) |-> kept[k].pair]

\* non_wasi_imports, its iterator consumed to the end
non_wasi_imports(q) ==
  LET w == world(q)
  IN  IF IsAbort(w) THEN w
      ELSE LET steps == [k \in 1..Len(w.world.imports) |->
                          non_wasi_step(q, w.world.imports[k].key,
                                        w.world.imports[k].item)]
               bad == FirstAbort(steps)
           IN  IF IsSome(bad) THEN Unwrapped(bad) ELSE Items(Yielded(steps))

\* the filter of imports for one import
imports_step(q, include_wasi, key, item) ==
  IF item.tag = "Interface" /\ ~include_wasi
  THEN LET i == interface(q, item.id)
       IN  IF ~IsSome(i) THEN Abort("called Option::unwrap() on a None value")
           ELSE IF ~IsSome(i[1].package)
           THEN [kind |-> "yield", pair |-> <<key, item>>]
           ELSE LET p == Get(q.resolve.packages, i[1].package[1])
                IN  IF ~IsSome(p)
                    THEN Abort("called Option::unwrap() on a None value")
                    ELSE IF p[1].name.namespace # "wasi"
                    THEN [kind |-> "yield", pair |-> <<key, item>>]
                    ELSE [kind |-> "skip"]
  ELSE [kind |-> "yield", pair |-> <<key, item>>]

\* imports, its iterator consumed to the end
imports(q, include_wasi) ==
  LET w == world(q)
  IN  IF IsAbort(w) THEN w
      ELSE LET steps == [k \in 1..Len(w.world.imports) |->
                          imports_step(q, include_wasi, w.world.imports[k].key,
                                       w.world.imports[k].item)]
               bad == FirstAbort(steps)
           IN  IF IsSome(bad) THEN Unwrapped(bad) ELSE Items(Yielded(steps))

\* a lookup that keeps the last entry rendering to name
get_world_item_by_name_last(q, items, name) ==
  LET names == [k \in 1..Len(items) |-> name_world_key(q.resolve, items[k].key)]
      bad == FirstAbort(names)
      hits == {k \in 1..Len(items) : names[k] = Text(name)}
  IN  IF IsSome(bad) THEN Unwrapped(bad)
      ELSE IF hits = {} THEN Absent
      ELSE Present(items[CHOOSE k \in hits : \A j \in hits : k >= j].item)

\* find_map: the keys are rendered one by one until one equals name
get_world_item_by_name(q, items, name) ==
  LET names == [k \in 1..Len(items) |-> name_world_key(q.resolve, items[k].key)]
      ends == {k \in 1..Len(items) : IsAbort(names[k]) \/ names[k].text = name}
  IN  IF ends = {} THEN Absent
      ELSE LET first == CHOOSE k \in ends : \A j \in ends : k <= j
           IN  IF IsAbort(names[first]) THEN names[first]
               ELSE Present(items[first].item)

export(q, name) ==
  LET w == world(q)
  IN  IF IsAbort(w) THEN w
      ELSE get_world_item_by_name(q, w.world.exports, name)

import(q, name) ==
  LET w == world(q)
  IN  IF IsAbort(w) THEN w
      ELSE get_world_item_by_name(q, w.world.imports, name)

\* match item { WorldItem::Function(f) => Some(f), _ => None }
function_only(found) ==
  IF found.kind = "some" /\ found.item.tag # "Function" THEN Absent ELSE found

exported_function(q, name) == function_only(export(q, name))

imported_function(q, name) == function_only(import(q, name))

\* Querier::new: the world must resolve
new(r, w) ==
  LET q == [resolve |-> r, world_id |-> w]
  IN  IF IsAbort(world(q)) THEN world(q) ELSE [kind |-> "querier", querier |-> q]

\* Component bytes are what wit_component::decode makes of them: nothing
\* (an error), a WIT package, or a component's graph and world.
from_bytes(component_bytes) ==
  IF component_bytes.decoded = "error"
  THEN Err("could not decode given file as a WebAssembly component")
  ELSE IF component_bytes.decoded = "package"
  THEN Err("found wit package instead of the expect WebAssembly component")
  ELSE new(component_bytes.resolve, component_bytes.world)

\* a comparison that looks at the results first
compare_functions_results_first(import_fn, export_fn) ==
  IF import_fn.results # export_fn.results THEN Err("return values not equal")
  ELSE IF import_fn.params # export_fn.params THEN Err("params not equal")
  ELSE Ok

\* the comparison of the two functions found
compare_functions(import_fn, export_fn) ==
  IF import_fn.params # export_fn.params THEN Err("params not equal")
  ELSE IF import_fn.results # export_fn.results
  THEN Err("return values not equal")
  ELSE Ok

check_dynamic_import(q, func_name, component_bytes) ==
  LET other == from_bytes(component_bytes)
  IN  IF other.kind # "querier" THEN other
      ELSE LET imp == imported_function(q, func_name)
           IN  IF IsAbort(imp) THEN imp
               ELSE IF imp = Absent THEN Err("no import with name")
               ELSE LET exp == exported_function(other.querier, func_name)
                    IN  IF IsAbort(exp) THEN exp
                        ELSE IF exp = Absent THEN Err("no export with name")
                        ELSE compare_functions(imp.item, exp.item)

-----------------------------------------------------------------------------
(* The graphs the queries are run on.  The package and interface arenas    *)
(* hold one interface for each way an interface can be owned; a world      *)
(* picks its imports and exports among them.                               *)

Package(namespace, name, version) ==
  [name |-> [namespace |-> namespace, name |-> name, version |-> version]]

Packages == <<Package("wasi", "io", Some("0.2.0")), Package("acme", "pkg", None)>>

\* 1: owned by the wasi package; 2: by another package; 3: by none;
\* 4: by a package the arena does not hold
Interfaces ==
  <<[name |-> Some("streams"), package |-> Some(1)],
    [name |-> Some("api"), package |-> Some(2)],
    [name |-> Some("bare"), package |-> None],
    [name |-> Some("lost"), package |-> Some(Len(Packages) + 1)]>>

\* the interface ids a world may refer to: the last is not in the arena
InterfaceRefs == 1..(Len(Interfaces) + 1)

\* what interface 2 renders to: the name a bare key can collide with
QualifiedName == <<"acme", ":", "pkg", "/", "api">>

Anon(t) == [anon |-> t]
Sig(param, ptype, rtype) == Function(<<<<param, Prim(ptype)>>>>, Anon(Prim(rtype)))
Functions ==
  {Sig("x", "U32", "String"), Sig("x", "U32", "U32"),
   Sig("x", "String", "String"), Sig("y", "U32", "U32")}

Entry(key, item) == [key |-> key, item |-> item]

\* the imports of the worlds whose WASI partition is queried: interfaces
\* under their own key, and a function, a type and inline interfaces
\* under bare names
PartitionEntries ==
  {Entry(InterfaceKey(i), InterfaceItem(i)) : i \in InterfaceRefs}
  \cup {Entry(NameKey(<<"f">>), Sig("x", "U32", "String")),
        Entry(NameKey(<<"t">>), TypeItem(1))}
  \cup {Entry(NameKey(<<"g">>), InterfaceItem(i)) : i \in InterfaceRefs}

\* the imports of the worlds whose items are looked up by name
LookupEntries ==
  {Entry(NameKey(<<"f">>), f) : f \in Functions}
  \cup {Entry(NameKey(<<"f">>), TypeItem(1)),
        Entry(NameKey(<<"f">>), InterfaceItem(2)),
        Entry(NameKey(QualifiedName), Sig("x", "U32", "String")),
        Entry(InterfaceKey(2), InterfaceItem(2)),
        Entry(InterfaceKey(Len(Interfaces) + 1),
              InterfaceItem(Len(Interfaces) + 1))}

ExportEntries ==
  {Entry(NameKey(<<"f">>), Sig("x", "U32", "String")),
   Entry(NameKey(<<"f">>), TypeItem(1)),
   Entry(NameKey(QualifiedName), Sig("x", "U32", "String")),
   Entry(InterfaceKey(2), InterfaceItem(2))}

\* the lists of at most n entries with distinct keys (an IndexMap)
Maps(entries, n) ==
  {m \in UNION {[1..k -> entries] : k \in 0..n} :
     \A i, j \in 1..Len(m) : i # j => m[i].key # m[j].key}

World(ins, outs) == [imports |-> ins, exports |-> outs]

Graph(worlds, types) ==
  [packages |-> Packages, interfaces |-> Interfaces, types |-> types,
   worlds |-> worlds]

LookupNames == {<<"f">>, QualifiedName, <<"h">>}

\* what the second component's bytes may decode to
ComponentBytes ==
  {[decoded |-> "error"], [decoded |-> "package"]}
  \cup {[decoded |-> "component", world |-> 1,
         resolve |-> Graph(<<World(<<>>, e)>>, <<>>)] :
          e \in Maps(ExportEntries, MaxExports)}

-----------------------------------------------------------------------------
(* The type arenas the renderer is run on.  A definition refers only to    *)
(* definitions allocated before it (the arena is in dependency order) or   *)
(* to an id the arena does not hold.                                       *)

CaseNames == <<"a", "b", "c", "d">>
FieldNames == <<"x", "y", "z", "w">>
FieldPrims == <<Prim("U32"), Prim("String"), Prim("Bool"), Prim("Char")>>

TypeNames(n) == {None, Some(n)}

EnumDef(name, k) ==
  [kind |-> "Enum", name |-> name, cases |-> SubSeq(CaseNames, 1, k)]

\* a record of k fields, the first of type first, the others primitive
RecordDef(name, first, k) ==
  [kind |-> "Record", name |-> name,
   fields |-> [i \in 1..k |->
                 [name |-> FieldNames[i],
                  ty |-> IF i = 1 THEN first ELSE FieldPrims[i]]]]

AliasDef(t) == [kind |-> "Type", name |-> Some("A"), ty |-> t]

ResultDef(ok, err) == [kind |-> "Result", name |-> None, ok |-> ok, err |-> err]

\* definitions that refer to no other definition of the arena
LeafDefs(dangling) ==
  {EnumDef(n, 2) : n \in TypeNames("E")}
  \cup {RecordDef(n, Prim("U32"), 2) : n \in TypeNames("R")}
  \cup {[kind |-> k, name |-> None] : k \in Unsupported \cup {"Unknown"}}
  \cup {AliasDef(Prim("U32")), AliasDef(Id(dangling)), ResultDef(None, None)}

\* definitions built on the type reference t
WrapDefs(t) ==
  {AliasDef(t),
   [kind |-> "Option", name |-> None, ty |-> t],
   [kind |-> "List", name |-> None, ty |-> t],
   [kind |-> "Tuple", name |-> None, types |-> <<t, Prim("U32")>>],
   ResultDef(Some(t), None),
   ResultDef(None, Some(t)),
   ResultDef(Some(t), Some(Prim("String"))),
   ResultDef(Some(Prim("U32")), Some(t)),
   RecordDef(Some("R"), t, 2),
   RecordDef(None, t, 2)}

RECURSIVE ArenasUpTo(_, _)
\* the arenas of k definitions in which id dangling is not allocated
ArenasUpTo(k, dangling) ==
  IF k = 1 THEN {<<d>> : d \in LeafDefs(dangling)}
  ELSE {Append(a, d) : a \in ArenasUpTo(k - 1, dangling),
                       d \in WrapDefs(Id(k - 1))}

Arenas(n) == ArenasUpTo(n, n + 1)

\* the enums and records whose Expanded bodies are measured
IndentArenas ==
  {<<EnumDef(Some("E"), 2), d>> :
     d \in {EnumDef(n, k) : n \in TypeNames("F"), k \in 1..MaxCases}
          \cup {RecordDef(n, Id(1), k) : n \in TypeNames("R"), k \in 1..MaxFields}}

EmptyWorld == World(<<>>, <<>>)

NoCall == [op |-> "none"]
NoRet == [kind |-> "none"]

Expansions(cols) == {Collapsed} \cup {Expanded(c) : c \in cols}

-----------------------------------------------------------------------------
(* The renderer's operations.                                              *)

DisplayWitType(cols) ==
  /\ pc = "ready"
  /\ \E param_type \in {Prim("U32")} \cup {Id(i) : i \in 1..Len(resolve.types) + 1},
        expansion \in Expansions(cols) :
       /\ call' = [op |-> "display_wit_type", param_type |-> param_type,
                   expansion |-> expansion]
       /\ ret' = display_wit_type(param_type, expansion, overflow_checks)
  /\ pc' = "returned"
  /\ UNCHANGED <<resolve, world_id, overflow_checks>>

DisplayWitTypeDef(cols) ==
  /\ pc = "ready"
  /\ \E i \in DOMAIN resolve.types, expansion \in Expansions(cols) :
       /\ call' = [op |-> "display_wit_type_def", typ |-> resolve.types[i],
                   expansion |-> expansion]
       /\ ret' = display_wit_type_def(resolve.types[i], expansion,
                                      overflow_checks)
  /\ pc' = "returned"
  /\ UNCHANGED <<resolve, world_id, overflow_checks>>

\* The caller takes the result (or catches the panic); the Querier, which
\* no operation changes, is ready for the next call.
Return ==
  /\ pc = "returned"
  /\ pc' = "ready"
  /\ call' = NoCall
  /\ ret' = NoRet
  /\ UNCHANGED <<resolve, world_id, overflow_checks>>

InitRender ==
  /\ resolve \in {[packages |-> <<>>, interfaces |-> <<>>, types |-> a,
                    worlds |-> <<EmptyWorld>>] : a \in Arenas(NTypes)}
  /\ world_id = 1
  /\ overflow_checks \in BOOLEAN
  /\ pc = "ready"
  /\ call = NoCall
  /\ ret = NoRet

NextRender ==
  \/ DisplayWitType(0..MaxCol)
  \/ DisplayWitTypeDef(0..MaxCol)
  \/ Return

SpecRender == InitRender /\ [][NextRender]_vars

InitIndent ==
  /\ resolve \in {[packages |-> <<>>, interfaces |-> <<>>, types |-> a,
                    worlds |-> <<EmptyWorld>>] : a \in IndentArenas}
  /\ world_id = 1
  /\ overflow_checks \in BOOLEAN
  /\ pc = "ready"
  /\ call = NoCall
  /\ ret = NoRet

NextIndent == DisplayWitTypeDef(0..U8Max) \/ Return

SpecIndent == InitIndent /\ [][NextIndent]_vars

-----------------------------------------------------------------------------
(* The Querier's construction and its queries.                             *)

New ==
  /\ pc = "new"
  /\ call' = [op |-> "new"]
  /\ ret' = IF IsAbort(new(resolve, world_id)) THEN new(resolve, world_id)
            ELSE [kind |-> "querier"]
  /\ pc' = IF IsAbort(new(resolve, world_id)) THEN "aborted" ELSE "ready"
  /\ UNCHANGED <<resolve, world_id, overflow_checks>>

\* a query: the call is recorded with what it returned
Query(c, r) ==
  /\ pc = "ready"
  /\ call' = c
  /\ ret' = r
  /\ pc' = "returned"
  /\ UNCHANGED <<resolve, world_id, overflow_checks>>

ImportsWasi == Query([op |-> "imports_wasi"], imports_wasi(Self))

NonWasiImports == Query([op |-> "non_wasi_imports"], non_wasi_imports(Self))

Imports ==
  \E include_wasi \in BOOLEAN :
    Query([op |-> "imports", include_wasi |-> include_wasi],
          imports(Self, include_wasi))

Export ==
  \E name \in LookupNames :
    Query([op |-> "export", name |-> name], export(Self, name))

Import ==
  \E name \in LookupNames :
    Query([op |-> "import", name |-> name], import(Self, name))

ExportedFunction ==
  \E name \in LookupNames :
    Query([op |-> "exported_function", name |-> name],
          exported_function(Self, name))

ImportedFunction ==
  \E name \in LookupNames :
    Query([op |-> "imported_function", name |-> name],
          imported_function(Self, name))

CheckDynamicImport ==
  \E func_name \in LookupNames \ {<<"h">>}, component_bytes \in ComponentBytes :
    Query([op |-> "check_dynamic_import", func_name |-> func_name,
           component_bytes |-> component_bytes],
          check_dynamic_import(Self, func_name, component_bytes))

\* Querier::new on a graph and a world id that may not resolve in it, then
\* the queries of the WASI partition
Init ==
  /\ resolve \in {Graph(<<World(i, <<>>)>>, <<>>) :
                    i \in Maps(PartitionEntries, MaxImports)}
  /\ world_id \in {1, 2}
  /\ overflow_checks = TRUE
  /\ pc = "new"
  /\ call = NoCall
  /\ ret = NoRet

Next == New \/ ImportsWasi \/ NonWasiImports \/ Imports \/ Return

Spec == Init /\ [][Next]_vars

\* a constructed Querier and the lookups by name
InitLookup ==
  /\ resolve \in {Graph(<<World(i, e)>>, <<>>) :
                    i \in Maps(LookupEntries, MaxImports),
                    e \in Maps(ExportEntries, MaxExports)}
  /\ world_id = 1
  /\ overflow_checks = TRUE
  /\ pc = "ready"
  /\ call = NoCall
  /\ ret = NoRet

NextLookup ==
  \/ Export
  \/ Import
  \/ ExportedFunction
  \/ ImportedFunction
  \/ CheckDynamicImport
  \/ Return

SpecLookup == InitLookup /\ [][NextLookup]_vars

-----------------------------------------------------------------------------
(* Properties of the renderer.                                             *)

Rendered == pc = "returned" /\ call.op \in {"display_wit_type", "display_wit_type_def"}
RenderedDef(kinds) ==
  pc = "returned" /\ call.op = "display_wit_type_def" /\ call.typ.kind \in kinds

\* an optional inner type of a result, rendered Collapsed
InnerCollapsed(o) ==
  IF IsSome(o) THEN Some(display_wit_type(Unwrapped(o), Collapsed, overflow_checks))
  ELSE None

\* C4: a result definition renders as result<A, B>, result<A>, result<B> or
\* result according to which of ok and err are present, A and B being the
\* Collapsed renderings of the inner types whatever the requested mode (and
\* it aborts exactly when an inner rendering aborts).
C4_ResultRendering ==
  RenderedDef({"Result"}) =>
    LET A == InnerCollapsed(call.typ.ok)
        B == InnerCollapsed(call.typ.err)
    IN  IF \E r \in {A[i] : i \in 1..Len(A)} \cup {B[i] : i \in 1..Len(B)} :
             IsAbort(r)
        THEN IsAbort(ret)
        ELSE ret = Text(
               CASE IsSome(A) /\ IsSome(B) ->
                      <<"result<">> \o A[1].text \o <<",", " ">> \o B[1].text
                      \o <<">">>
                 [] IsSome(A) /\ ~IsSome(B) -> <<"result<">> \o A[1].text \o <<">">>
                 [] ~IsSome(A) /\ IsSome(B) -> <<"result<">> \o B[1].text \o <<">">>
                 [] OTHER -> <<"result">>)

\* an Expanded request for result<E, string>, E a named enum, gave the
\* enum's name, not its body
C4_Witness ==
  /\ RenderedDef({"Result"})
  /\ call.expansion = Expanded(1)
  /\ call.typ.ok = Some(Id(1)) /\ call.typ.err = Some(Prim("String"))
  /\ resolve.types[1] = EnumDef(Some("E"), 2)
  /\ ret = Text(<<"result<", "E", ",", " ", "string", ">">>)

\* the lines of a text, split at its line breaks
NewlineAt(t) == {i \in 1..Len(t) : t[i] = "\n"}
Lines(t) ==
  LET nl == NewlineAt(t)
      nth(n) == CHOOSE p \in nl : Cardinality({q \in nl : q < p}) = n - 1
  IN  [j \in 1..(Cardinality(nl) + 1) |->
         SubSeq(t,
                IF j = 1 THEN 1 ELSE nth(j - 1) + 1,
                IF j = Cardinality(nl) + 1 THEN Len(t) ELSE nth(j) - 1)]
LeadingSpaces(l) ==
  LET others == {i \in 1..Len(l) : l[i] # " "}
  IN  IF others = {} THEN Len(l)
      ELSE (CHOOSE i \in others : \A j \in others : i <= j) - 1
AfterIndent(l) == SubSeq(l, LeadingSpaces(l) + 1, Len(l))

\* what an enum case or record field contributes to its line
BodyEntry(typ, i) ==
  IF typ.kind = "Enum" THEN <<typ.cases[i]>>
  ELSE <<typ.fields[i].name, ":", " ">>
       \o display_wit_type(typ.fields[i].ty, Collapsed, overflow_checks).text
Entries(typ) == IF typ.kind = "Enum" THEN Len(typ.cases) ELSE Len(typ.fields)

\* text t is the Expanded body of typ: the keyword and opening brace, one
\* entry per line indented by body spaces, the closing brace by close spaces
ExpandedBody(t, typ, body, close) ==
  LET k == Entries(typ)
      lines == Lines(t)
  IN  /\ Len(lines) = k + 2
      /\ lines[1] = <<IF typ.kind = "Enum" THEN "enum {" ELSE "record {">>
      /\ \A i \in 1..k :
           /\ LeadingSpaces(lines[i + 1]) = body
           /\ AfterIndent(lines[i + 1])
                = BodyEntry(typ, i) \o (IF i < k THEN <<",">> ELSE <<>>)
      /\ LeadingSpaces(lines[k + 2]) = close
      /\ AfterIndent(lines[k + 2]) = <<"}">>

RenderedExpanded ==
  RenderedDef({"Enum", "Record"}) /\ call.expansion.mode = "Expanded"

C6_AliasTransparent ==
  RenderedDef({"Type"}) =>
    /\ ret = display_wit_type(call.typ.ty, call.expansion, overflow_checks)
    /\ IsText(ret) =>
         \A i \in 1..Len(ret.text) : <<ret.text[i]>> # call.typ.name

\* an alias of an alias of a named record, Expanded: the record's body
C6_Witness ==
  /\ RenderedDef({"Type"})
  /\ call.expansion = Expanded(1)
  /\ call.typ.ty = Id(2)
  /\ resolve.types[2] = AliasDef(Id(1))
  /\ resolve.types[1] = RecordDef(Some("R"), Prim("U32"), 2)
  /\ IsText(ret) /\ ret.text[1] = "record {"

\* The definitions the traversal enters from a definition, each with
\* whether it is entered in Collapsed mode, were no rendering to abort.
RECURSIVE EnteredDef(_, _)
EnteredDef(d, collapsed) ==
  LET via(t, c) ==
        IF t.tag # "Id" \/ t.id \notin DOMAIN resolve.types THEN {}
        ELSE EnteredDef(resolve.types[t.id], c)
  IN  {<<d, collapsed>>} \cup
      CASE d.kind = "Type" -> via(d.ty, collapsed)
        [] d.kind \in {"Option", "List"} -> via(d.ty, TRUE)
        [] d.kind = "Result" ->
             UNION {via(o[1], TRUE) : o \in {d.ok, d.err} \ {None}}
        [] d.kind = "Tuple" ->
             UNION {via(d.types[i], TRUE) : i \in 1..Len(d.types)}
        [] d.kind = "Record" /\ ~collapsed ->
             UNION {via(d.fields[i].ty, TRUE) : i \in 1..Len(d.fields)}
        [] OTHER -> {}

\* the same from the argument of the call made
EnteredByCall ==
  LET c == call.expansion.mode = "Collapsed"
  IN  IF call.op = "display_wit_type_def" THEN EnteredDef(call.typ, c)
      ELSE IF call.param_type.tag = "Id"
              /\ call.param_type.id \in DOMAIN resolve.types
           THEN EnteredDef(resolve.types[call.param_type.id], c)
      ELSE {}

\* a definition the renderer cannot render in the mode it is entered in
Unrenderable(e) ==
  \/ e[1].kind \in Unsupported \cup {"Unknown"}
  \/ e[1].kind \in {"Enum", "Record"} /\ e[1].name = None /\ e[2]

\* C8: a traversal that reaches a resource, handle, flags, variant, future,
\* stream or unknown definition, or an unnamed enum or record in Collapsed
\* mode, at any depth, aborts: the call returns no text.
C8_UnsupportedAborts ==
  (Rendered /\ \E e \in EnteredByCall : Unrenderable(e)) => IsAbort(ret)

\* an Expanded record whose field is an alias of a flags definition
C8_Witness ==
  /\ pc = "returned" /\ call.op = "display_wit_type"
  /\ call.expansion = Expanded(1)
  /\ call.param_type = Id(3)
  /\ resolve.types[3] = RecordDef(Some("R"), Id(2), 2)
  /\ resolve.types[2] = AliasDef(Id(1))
  /\ resolve.types[1].kind = "Flags"
  /\ ret = Abort("not yet implemented")

-----------------------------------------------------------------------------
(* Properties of the queries.                                              *)

Returned(ops) == pc = "returned" /\ call.op \in ops

TheImports == resolve.worlds[world_id].imports
TheExports == resolve.worlds[world_id].exports

\* the namespace of the package that owns interface id, if it has one
OwnerNamespace(id) ==
  IF /\ id \in DOMAIN resolve.interfaces
     /\ IsSome(resolve.interfaces[id].package)
     /\ resolve.interfaces[id].package[1] \in DOMAIN resolve.packages
  THEN Some(resolve.packages[resolve.interfaces[id].package[1]].name.namespace)
  ELSE None

\* an import that is an Interface item owned by a package of namespace wasi
WasiItem(e) == e.item.tag = "Interface" /\ OwnerNamespace(e.item.id) = Some("wasi")

\* C1 as stated: imports_wasi() is true iff some import is an Interface
\* item whose owning package has the namespace "wasi".
C1_AsStated ==
  (Returned({"imports_wasi"}) /\ ret.kind = "bool") =>
    (ret.val <=> \E k \in 1..Len(TheImports) : WasiItem(TheImports[k]))

\* the imports that are not WASI, each with its rendered key name
NonWasiPairs ==
  LET kept == SelectSeq(TheImports, LAMBDA e : ~WasiItem(e))
  IN  [k \in 1..Len(kept) |->
         <<world_item_name(Self, kept[k].key).text, kept[k].item>>]

\* C2 as stated: non_wasi_imports() yields, in import order and with their
\* rendered key names, exactly the imports whose owning package is not of
\* namespace "wasi" and those that have no owning package.
C2_AsStated ==
  (Returned({"non_wasi_imports"}) /\ ret.kind = "items") =>
    ret.items = NonWasiPairs

\* an identifier of the graph that the query follows and that misses: the
\* interface is not in the arena, or its package is not
Misses(id) ==
  \/ id \notin DOMAIN resolve.interfaces
  \/ /\ IsSome(resolve.interfaces[id].package)
     /\ resolve.interfaces[id].package[1] \notin DOMAIN resolve.packages

\* the call made followed an identifier that misses: imports_wasi looks at
\* the interface keys up to the first WASI one, non_wasi_imports at every
\* interface key, imports(false) at every interface item
FollowedMiss ==
  \E k \in 1..Len(TheImports) :
    LET e == TheImports[k]
    IN  \/ /\ call.op = "imports_wasi"
           /\ e.key.tag = "Interface" /\ Misses(e.key.id)
           /\ \A j \in 1..(k - 1) :
                ~(TheImports[j].key.tag = "Interface"
                  /\ OwnerNamespace(TheImports[j].key.id) = Some("wasi"))
        \/ /\ call.op = "non_wasi_imports"
           /\ e.key.tag = "Interface" /\ Misses(e.key.id)
        \/ /\ call.op = "imports" /\ ~call.include_wasi
           /\ e.item.tag = "Interface" /\ Misses(e.item.id)

\* C7 as stated: a lookup miss on an identifier taken from inside the graph
\* aborts the operation; no query returns an ordinary answer after it.
C7_AsStated ==
  /\ (call.op = "new" /\ world_id \notin DOMAIN resolve.worlds) => IsAbort(ret)
  /\ (Returned({"imports_wasi", "non_wasi_imports", "imports"}) /\ FollowedMiss)
       => IsAbort(ret)

\* the imports a list of pairs leaves out
Excluded(pairs) ==
  {k \in 1..Len(TheImports) :
     \A i \in 1..Len(pairs) : pairs[i] # <<TheImports[k].key, TheImports[k].item>>}

Seconds(pairs) == [k \in 1..Len(pairs) |-> pairs[k][2]]

\* C10 as stated: imports(false) yields the items non_wasi_imports() yields
\* and leaves out only imports that imports_wasi() counts; imports(true)
\* yields every import in order; non-interface imports are always yielded.
C10_AsStated ==
  (Returned({"imports"}) /\ ret.kind = "items") =>
    /\ call.include_wasi =>
         ret.items = [k \in 1..Len(TheImports) |->
                        <<TheImports[k].key, TheImports[k].item>>]
    /\ \A k \in Excluded(ret.items) : TheImports[k].item.tag = "Interface"
    /\ ~call.include_wasi =>
         /\ non_wasi_imports(Self).kind = "items" =>
              Seconds(ret.items) = Seconds(non_wasi_imports(Self).items)
         /\ \A k \in Excluded(ret.items) :
              imports_wasi_step(Self, TheImports[k].key).kind = "return"

\* the first entry of items whose key renders to name, 0 when there is none
FirstNamed(q, items, name) ==
  LET hits == {k \in 1..Len(items) :
                 world_item_name(q, items[k].key) = Text(name)}
  IN  IF hits = {} THEN 0 ELSE CHOOSE k \in hits : \A j \in hits : k <= j

\* what a lookup of name in items is to return, narrowed to functions or not
Lookup(q, items, name, narrow) ==
  LET k == FirstNamed(q, items, name)
  IN  IF k = 0 THEN Absent
      ELSE IF narrow /\ items[k].item.tag # "Function" THEN Absent
      ELSE Present(items[k].item)

\* C9: export(name) and import(name) return the first item, in export or
\* import order, whose key renders to name, and absent when none does;
\* exported_function and imported_function return that item when it is a
\* Function and absent otherwise, whatever later entries render to name.
C9_LookupByName ==
  (Returned({"export", "import", "exported_function", "imported_function"})
     /\ ~IsAbort(ret)) =>
    ret = Lookup(Self,
                 IF call.op \in {"export", "exported_function"}
                 THEN TheExports ELSE TheImports,
                 call.name,
                 call.op \in {"exported_function", "imported_function"})

\* an interface and, after it, a function under a bare name that renders
\* the same: the lookup of a function by that name finds nothing
C9_Witness ==
  /\ Returned({"imported_function"})
  /\ call.name = QualifiedName
  /\ Len(TheImports) = 2
  /\ TheImports[1] = Entry(InterfaceKey(2), InterfaceItem(2))
  /\ TheImports[2] = Entry(NameKey(QualifiedName), Sig("x", "U32", "String"))
  /\ ret = Absent

\* C3: when the second component decodes to a component,
\* check_dynamic_import succeeds iff the import and the export of that name
\* are functions with equal parameter lists and equal result lists; else it
\* returns an error: of a missing import or export when a lookup misses,
\* of the params when they differ, of the return values when the params
\* agree and the results differ.
C3_DynamicImport ==
  (Returned({"check_dynamic_import"}) /\ call.component_bytes.decoded = "component"
     /\ ~IsAbort(ret)) =>
    LET other == [resolve |-> call.component_bytes.resolve,
                  world_id |-> call.component_bytes.world]
        imp == Lookup(Self, TheImports, call.func_name, TRUE)
        exp == Lookup(other, other.resolve.worlds[other.world_id].exports,
                      call.func_name, TRUE)
        found == imp # Absent /\ exp # Absent
    IN  /\ ret.kind \in {"ok", "err"}
        /\ ret = Ok <=> /\ found
                        /\ imp.item.params = exp.item.params
                        /\ imp.item.results = exp.item.results
        /\ ret \in {Err("no import with name"), Err("no export with name")}
             <=> ~found
        /\ ret = Err("no import with name") => imp = Absent
        /\ ret = Err("no export with name") => exp = Absent
        /\ ret = Err("params not equal")
             <=> found /\ imp.item.params # exp.item.params
        /\ ret = Err("return values not equal")
             <=> /\ found
                 /\ imp.item.params = exp.item.params
                 /\ imp.item.results # exp.item.results

\* f(x: u32) -> u32 imported, f(x: u32) -> string exported: the return
\* values are reported
C3_Witness ==
  /\ Returned({"check_dynamic_import"})
  /\ call.func_name = <<"f">>
  /\ call.component_bytes.decoded = "component"
  /\ import(Self, <<"f">>) = Present(Sig("x", "U32", "U32"))
  /\ ret = Err("return values not equal")

====
